---- MODULE Spec2Model ----
(***************************************************************************)
(* A model of bevy_consumable_event: the buffer ConsumableEvents<E>, its   *)
(* iterator ConsumableEventIterator, the guard Consume, and the two        *)
(* lifecycle systems of app.rs (clear_all_events, clear_consumed_events).  *)
(*                                                                         *)
(* The payload type E is TestEvent { value: usize } of the test modules;   *)
(* a payload is modelled by its value.                                     *)
(*                                                                         *)
(* Two specifications:                                                     *)
(*   Spec     any interleaving of the public API on one buffer, under the  *)
(*            borrow rule (while an iterator or a guard of a read() is     *)
(*            alive, nothing else touches the buffer);                     *)
(*   AppSpec  the schedule of the tests of app.rs: every cycle runs        *)
(*            run_first_schedule, write_events,                            *)
(*            consume_odds_and_halve_evens, then the test collects a read. *)
(***************************************************************************)
EXTENDS Integers, Sequences, FiniteSets, TLC

\* ------------------------------------------------------------------ bounds

\* Spec sends at most MaxSends records in one behaviour.
MaxSends == 3
\* Longest batch given to send_batch in Spec.
MaxBatch == 2
\* AppSpec runs app.update() at most MaxCycles times.
MaxCycles == 2

\* ------------------------------------------------------- program constants

\* write_events sends the values 0..10 (exclusive).
NumEvents == 10
\* TestEvent derives Default: value = usize::default().
DefaultValue == 0

\* The payload values Spec sends and writes.
Payloads == {0, 1}

RECURSIVE SeqsUpTo(_, _)
SeqsUpTo(S, n) ==
  IF n = 0 THEN {<<>>}
  ELSE SeqsUpTo(S, n - 1) \cup
       {Append(s, x) : s \in {t \in SeqsUpTo(S, n - 1) : Len(t) = n - 1}, x \in S}

Batches == SeqsUpTo(Payloads, MaxBatch)

Modes == {"transient", "persistent"}

\* ------------------------------------------------------------------- state

VARIABLES
  events,          \* ConsumableEvents::events: the Vec of EventInstance
  reading,         \* a ConsumableEventIterator (or a guard it gave) borrows the buffer
  pos,             \* how many elements the wrapped IterMut has passed
  guards,          \* the live Consume guards, each the index of the record it borrows
  mode,            \* which system the app registered in First
  nextUid,         \* history: the identity the next record sent gets
  consumedNow,     \* history: the uids this pass has called consume() on
  consumedEarlier, \* history: the uids earlier passes called consume() on
  yielded,         \* history: what this pass's next() calls have returned so far
  op,              \* history: the last call on the buffer (send.., clear.., read, first)
  arg,             \* history: the payloads that call was given
  prev,            \* history: the buffer as it was before that call
  pc,              \* AppSpec: the system of the chain that runs next
  cycle,           \* AppSpec: how many times app.update() has started
  value,           \* AppSpec: the loop variable of write_events
  values           \* AppSpec: the Vec the test collected at the end of the cycle

vars == <<events, reading, pos, guards, mode, nextUid, consumedNow, consumedEarlier,
          yielded, op, arg, prev, pc, cycle, value, values>>

appVars == <<pc, cycle, value, values>>

\* ------------------------------------------------- the buffer's operations

\* EventInstance { event, consumed: false }. uid and born are history fields:
\* the record's identity and the cycle it was sent in.
EventInstance(event, uid, born) ==
  [event |-> event, consumed |-> FALSE, uid |-> uid, born |-> born]

\* A send that pushes at the front instead of the tail.
send_front(self, event, uid, born) == <<EventInstance(event, uid, born)>> \o self

\* ConsumableEvents::send: self.events.push(EventInstance { event, consumed: false })
send(self, event, uid, born) == Append(self, EventInstance(event, uid, born))

\* An extend that appends the batch back to front.
extend_reversed(self, iter, uid, born) ==
  self \o [k \in 1..Len(iter) |->
             EventInstance(iter[Len(iter) + 1 - k], uid + k - 1, born)]

\* Extend::extend: self.events.extend(iter.map(|event| EventInstance { .. }))
extend(self, iter, uid, born) ==
  self \o [k \in 1..Len(iter) |-> EventInstance(iter[k], uid + k - 1, born)]

\* ConsumableEvents::send_batch: self.extend(events)
send_batch(self, batch, uid, born) == extend(self, batch, uid, born)

\* ConsumableEvents::send_default: self.send(Default::default())
send_default(self, uid, born) == send(self, DefaultValue, uid, born)

\* A clear that drops only what has been consumed.
clear_keeps_unconsumed(self) == SelectSeq(self, LAMBDA e : ~e.consumed)

\* ConsumableEvents::clear: self.events.clear()
clear(self) == <<>>

\* A clear_consumed whose retain predicate is inverted.
clear_consumed_inverted(self) == SelectSeq(self, LAMBDA e : e.consumed)

\* A clear_consumed that stops after the first record it removes.
RECURSIVE clear_consumed_first_only(_)
clear_consumed_first_only(self) ==
  IF self = <<>> THEN <<>>
  ELSE IF Head(self).consumed THEN Tail(self)
  ELSE <<Head(self)>> \o clear_consumed_first_only(Tail(self))

\* ConsumableEvents::clear_consumed: self.events.retain(|event| !event.consumed)
clear_consumed(self) == SelectSeq(self, LAMBDA e : ~e.consumed)

\* A find that gives up when the element it passed last has been consumed.
find_stops_after_consumed(self, p) ==
  LET U == {i \in (p + 1)..Len(self) : ~self[i].consumed}
  IN  IF U = {} \/ (p > 0 /\ self[p].consumed) THEN 0
      ELSE CHOOSE x \in U : \A y \in U : x <= y

\* A find that starts over from the head of the Vec on every call.
find_from_start(self, p) ==
  LET U == {i \in 1..Len(self) : ~self[i].consumed}
  IN  IF U = {} THEN 0 ELSE CHOOSE x \in U : \A y \in U : x <= y

\* A find that takes the next element whatever its flag.
find_no_skip(self, p) == IF p >= Len(self) THEN 0 ELSE p + 1

\* A find that advances one element and then filters: None at a consumed record.
find_single_step(self, p) ==
  IF p >= Len(self) THEN 0
  ELSE IF ~self[p + 1].consumed THEN p + 1
  ELSE 0

\* IterMut::find(|event_instance| !event_instance.consumed) from position p:
\* the index of the first unconsumed element after the p elements already
\* passed, 0 for None.
RECURSIVE find(_, _)
find(self, p) ==
  IF p >= Len(self) THEN 0
  ELSE IF ~self[p + 1].consumed THEN p + 1
  ELSE find(self, p + 1)

\* A consume that marks every stored record holding an equal payload.
consume_equal_payloads(self, i) ==
  [j \in 1..Len(self) |->
     IF self[j].event = self[i].event THEN [self[j] EXCEPT !.consumed = TRUE]
     ELSE self[j]]

\* A consume that takes the record out of the Vec.
consume_removes(self, i) == SubSeq(self, 1, i - 1) \o SubSeq(self, i + 1, Len(self))

\* A consume that flips the flag instead of setting it.
consume_toggle(self, i) == [self EXCEPT ![i].consumed = ~@]

\* Consume::consume on the guard bound to record i: *self.consumed = true
consume(self, i) == [self EXCEPT ![i].consumed = TRUE]

\* A payload write that also clears the record's consumed flag.
deref_mut_resets_flag(self, i, v) ==
  [self EXCEPT ![i].event = v, ![i].consumed = FALSE]

\* Consume::deref_mut on the guard bound to record i, then a write of v
deref_mut(self, i, v) == [self EXCEPT ![i].event = v]

\* A size_hint that hands on the hint of the wrapped iterator as it is.
size_hint_of_inner(self, p) == <<Len(self) - p, Len(self) - p>>

\* ConsumableEventIterator::size_hint with p elements passed: lower bound 0,
\* upper bound that of the wrapped IterMut, the number of elements it has left.
size_hint(self, p) == <<0, Len(self) - p>>

\* A whole pass, events.read().collect(): next() until it returns None. The
\* guards are given as the indices of their records.
RECURSIVE collect(_, _)
collect(self, p) ==
  LET i == find(self, p)
  IN  IF i = 0 THEN <<>> ELSE <<i>> \o collect(self, i)

\* events.read().map(|event| event.value).collect::<Vec<_>>()
read_values(self) ==
  LET got == collect(self, 0)
  IN  [k \in 1..Len(got) |-> self[got[k]].event]

\* A clear_all_events that calls clear_consumed.
clear_all_events_consumed_only(self) == clear_consumed(self)

\* clear_all_events: events.clear()
clear_all_events(self) == clear(self)

\* A clear_consumed_events that leaves the buffer alone.
clear_consumed_events_nothing(self) == self

\* A clear_consumed_events that calls clear.
clear_consumed_events_all(self) == clear(self)

\* clear_consumed_events: events.clear_consumed()
clear_consumed_events(self) == clear_consumed(self)

\* The system add_consumable_event / add_persistent_consumable_event put in First.
first_system(self, m) ==
  IF m = "transient" THEN clear_all_events(self) ELSE clear_consumed_events(self)

\* ---------------------------------------------------------------- Init

Init ==
  /\ events = <<>>
  /\ reading = FALSE
  /\ pos = 0
  /\ guards = {}
  /\ mode \in Modes
  /\ nextUid = 1
  /\ consumedNow = {}
  /\ consumedEarlier = {}
  /\ yielded = <<>>
  /\ op = "init"
  /\ arg = <<>>
  /\ prev = <<>>
  /\ pc = "any"
  /\ cycle = 0
  /\ value = 0
  /\ values = <<>>

\* A call on the buffer itself is recorded with the buffer it found.
Did(name, payloads) ==
  /\ op' = name
  /\ arg' = payloads
  /\ prev' = events

\* ------------------------------------------------ steps shared by both specs

\* ConsumableEvents::read (and ConsumableEventReader::read): a fresh iterator
\* over the whole Vec, which borrows the buffer.
DoRead ==
  /\ ~reading
  /\ reading' = TRUE
  /\ pos' = 0
  /\ guards' = {}
  /\ yielded' = <<>>
  /\ Did("read", <<>>)
  /\ UNCHANGED <<events, mode, nextUid, consumedNow, consumedEarlier>>

\* A next that marks the record consumed as it hands the guard out.
DoNextConsuming ==
  /\ reading
  /\ LET i == find(events, pos)
     IN  IF i = 0
         THEN /\ pos' = Len(events)
              /\ UNCHANGED <<events, guards, yielded>>
         ELSE /\ pos' = i
              /\ events' = consume(events, i)
              /\ guards' = guards \cup {i}
              /\ yielded' = Append(yielded, [idx |-> i, uid |-> events[i].uid,
                                             event |-> events[i].event])
  /\ UNCHANGED <<reading, mode, nextUid, consumedNow, consumedEarlier, op, arg, prev>>

\* ConsumableEventIterator::next: find, then map the element to a guard.
DoNext ==
  /\ reading
  /\ LET i == find(events, pos)
     IN  IF i = 0
         THEN /\ pos' = Len(events)
              /\ UNCHANGED <<guards, yielded>>
         ELSE /\ pos' = i
              /\ guards' = guards \cup {i}
              /\ yielded' = Append(yielded, [idx |-> i, uid |-> events[i].uid,
                                             event |-> events[i].event])
  /\ UNCHANGED <<events, reading, mode, nextUid, consumedNow, consumedEarlier, op,
                 arg, prev>>

\* consume() on the guard of record i.
DoConsume(i) ==
  /\ i \in guards
  /\ events' = consume(events, i)
  /\ consumedNow' = consumedNow \cup {events[i].uid}
  /\ UNCHANGED <<reading, pos, guards, mode, nextUid, consumedEarlier, yielded, op,
                 arg, prev>>

\* A payload write through the guard of record i.
DoWrite(i, v) ==
  /\ i \in guards
  /\ events' = deref_mut(events, i, v)
  /\ UNCHANGED <<reading, pos, guards, mode, nextUid, consumedNow, consumedEarlier,
                 yielded, op, arg, prev>>

\* The iterator and every guard it gave go out of scope: the borrow ends.
DoEndRead ==
  /\ reading
  /\ reading' = FALSE
  /\ pos' = 0
  /\ guards' = {}
  /\ yielded' = <<>>
  /\ consumedEarlier' = consumedEarlier \cup consumedNow
  /\ consumedNow' = {}
  /\ UNCHANGED <<events, mode, nextUid, op, arg, prev>>

\* The First schedule runs the system the app registered.
DoFirst ==
  /\ ~reading
  /\ events' = first_system(events, mode)
  /\ Did("first", <<>>)
  /\ UNCHANGED <<reading, pos, guards, mode, nextUid, consumedNow, consumedEarlier,
                 yielded>>

\* ConsumableEvents::send (and ConsumableEventWriter::send).
DoSend(e) ==
  /\ ~reading
  /\ events' = send(events, e, nextUid, cycle)
  /\ nextUid' = nextUid + 1
  /\ Did("send", <<e>>)
  /\ UNCHANGED <<reading, pos, guards, mode, consumedNow, consumedEarlier, yielded>>

\* ------------------------------------------------------------ Spec's actions

Send(e) ==
  /\ nextUid <= MaxSends
  /\ DoSend(e)
  /\ UNCHANGED appVars

SendBatch(b) ==
  /\ ~reading
  /\ nextUid + Len(b) - 1 <= MaxSends
  /\ events' = send_batch(events, b, nextUid, cycle)
  /\ nextUid' = nextUid + Len(b)
  /\ Did("send_batch", b)
  /\ UNCHANGED <<reading, pos, guards, mode, consumedNow, consumedEarlier, yielded>>
  /\ UNCHANGED appVars

SendDefault ==
  /\ ~reading
  /\ nextUid <= MaxSends
  /\ events' = send_default(events, nextUid, cycle)
  /\ nextUid' = nextUid + 1
  /\ Did("send_default", <<>>)
  /\ UNCHANGED <<reading, pos, guards, mode, consumedNow, consumedEarlier, yielded>>
  /\ UNCHANGED appVars

Clear ==
  /\ ~reading
  /\ events' = clear(events)
  /\ Did("clear", <<>>)
  /\ UNCHANGED <<reading, pos, guards, mode, nextUid, consumedNow, consumedEarlier,
                 yielded>>
  /\ UNCHANGED appVars

ClearConsumed ==
  /\ ~reading
  /\ events' = clear_consumed(events)
  /\ Did("clear_consumed", <<>>)
  /\ UNCHANGED <<reading, pos, guards, mode, nextUid, consumedNow, consumedEarlier,
                 yielded>>
  /\ UNCHANGED appVars

First ==
  /\ DoFirst
  /\ UNCHANGED appVars

Read ==
  /\ DoRead
  /\ UNCHANGED appVars

IterNext ==
  /\ DoNext
  /\ UNCHANGED appVars

GuardConsume(i) ==
  /\ DoConsume(i)
  /\ UNCHANGED appVars

GuardWrite(i, v) ==
  /\ DoWrite(i, v)
  /\ UNCHANGED appVars

\* The guard of record i goes out of scope.
GuardDrop(i) ==
  /\ i \in guards
  /\ guards' = guards \ {i}
  /\ UNCHANGED <<events, reading, pos, mode, nextUid, consumedNow, consumedEarlier,
                 yielded, op, arg, prev>>
  /\ UNCHANGED appVars

EndRead ==
  /\ DoEndRead
  /\ UNCHANGED appVars

Next ==
  \/ \E e \in Payloads : Send(e)
  \/ \E b \in Batches : SendBatch(b)
  \/ SendDefault
  \/ Clear
  \/ ClearConsumed
  \/ First
  \/ Read
  \/ IterNext
  \/ \E i \in guards : GuardConsume(i)
  \/ \E i \in guards : \E v \in Payloads : GuardWrite(i, v)
  \/ \E i \in guards : GuardDrop(i)
  \/ EndRead

Spec == Init /\ [][Next]_vars

\* ----------------------------------------- AppSpec: the schedule of app.rs

AppInit ==
  /\ events = <<>>
  /\ reading = FALSE
  /\ pos = 0
  /\ guards = {}
  /\ mode \in Modes
  /\ nextUid = 1
  /\ consumedNow = {}
  /\ consumedEarlier = {}
  /\ yielded = <<>>
  /\ op = "init"
  /\ arg = <<>>
  /\ prev = <<>>
  /\ pc = "run_first_schedule"
  /\ cycle = 0
  /\ value = 0
  /\ values = <<>>

\* app.update() begins; run_first_schedule: world.run_schedule(First)
run_first_schedule ==
  /\ pc = "run_first_schedule"
  /\ cycle < MaxCycles
  /\ cycle' = cycle + 1
  /\ DoFirst
  /\ pc' = "write_events"
  /\ value' = 0
  /\ UNCHANGED values

\* write_events, one turn of its loop: events.send(TestEvent { value })
write_events ==
  /\ pc = "write_events"
  /\ value < NumEvents
  /\ DoSend(value)
  /\ value' = value + 1
  /\ UNCHANGED <<pc, cycle, values>>

\* consume_odds_and_halve_evens begins: events.read()
consume_odds_and_halve_evens ==
  /\ pc = "write_events"
  /\ value = NumEvents
  /\ DoRead
  /\ pc' = "consume_odds_and_halve_evens"
  /\ UNCHANGED <<cycle, value, values>>

\* The for loop asks the iterator for the next guard.
LoopNext ==
  /\ pc = "consume_odds_and_halve_evens"
  /\ guards = {}
  /\ pos < Len(events)
  /\ DoNext
  /\ UNCHANGED appVars

\* The loop body on the guard it holds; the guard is dropped at its end.
LoopBody ==
  /\ pc = "consume_odds_and_halve_evens"
  /\ \E i \in guards :
       /\ IF events[i].event % 2 = 1
          THEN /\ events' = consume(events, i)
               /\ consumedNow' = consumedNow \cup {events[i].uid}
          ELSE /\ events' = deref_mut(events, i, events[i].event \div 2)
               /\ UNCHANGED consumedNow
       /\ guards' = guards \ {i}
  /\ UNCHANGED <<reading, pos, mode, nextUid, consumedEarlier, yielded, op, arg, prev>>
  /\ UNCHANGED appVars

\* next() returned None: the loop and the system end.
LoopEnd ==
  /\ pc = "consume_odds_and_halve_evens"
  /\ guards = {}
  /\ pos = Len(events)
  /\ DoEndRead
  /\ pc' = "collect"
  /\ UNCHANGED <<cycle, value, values>>

\* The test reads the buffer after app.update() has returned.
Collect ==
  /\ pc = "collect"
  /\ values' = read_values(events)
  /\ pc' = "run_first_schedule"
  /\ Did("collect", <<>>)
  /\ UNCHANGED <<events, reading, pos, guards, mode, nextUid, consumedNow,
                 consumedEarlier, yielded, cycle, value>>

AppNext ==
  \/ run_first_schedule
  \/ write_events
  \/ consume_odds_and_halve_evens
  \/ LoopNext
  \/ LoopBody
  \/ LoopEnd
  \/ Collect

AppSpec == AppInit /\ [][AppNext]_vars

\* --------------------- OrderSpec: a reader before and a reader after the writer

\* Every cycle runs the chain First, a reader system, a writer system, a
\* second reader system. A reader system makes one pass in which it may
\* consume or write through any guard it holds; the writer system sends.
OrderInit ==
  /\ events = <<>>
  /\ reading = FALSE
  /\ pos = 0
  /\ guards = {}
  /\ mode \in Modes
  /\ nextUid = 1
  /\ consumedNow = {}
  /\ consumedEarlier = {}
  /\ yielded = <<>>
  /\ op = "init"
  /\ arg = <<>>
  /\ prev = <<>>
  /\ pc = "first"
  /\ cycle = 0
  /\ value = 0
  /\ values = <<>>

\* The cycle begins with the registered system of First.
CycleFirst ==
  /\ pc = "first"
  /\ cycle < MaxCycles
  /\ cycle' = cycle + 1
  /\ DoFirst
  /\ pc' = "early_reader"
  /\ UNCHANGED <<value, values>>

\* A reader system calls ConsumableEventReader::read.
ReaderStarts ==
  /\ pc \in {"early_reader", "late_reader"}
  /\ DoRead
  /\ UNCHANGED appVars

ReaderNext ==
  /\ pc \in {"early_reader", "late_reader"}
  /\ DoNext
  /\ UNCHANGED appVars

ReaderConsumes(i) ==
  /\ pc \in {"early_reader", "late_reader"}
  /\ DoConsume(i)
  /\ UNCHANGED appVars

ReaderWrites(i, v) ==
  /\ pc \in {"early_reader", "late_reader"}
  /\ DoWrite(i, v)
  /\ UNCHANGED appVars

\* The reader system returns: its iterator and guards are dropped.
ReaderEnds ==
  /\ pc \in {"early_reader", "late_reader"}
  /\ DoEndRead
  /\ pc' = IF pc = "early_reader" THEN "writer" ELSE "first"
  /\ UNCHANGED <<cycle, value, values>>

\* The writer system calls ConsumableEventWriter::send.
WriterSends(e) ==
  /\ pc = "writer"
  /\ nextUid <= MaxSends
  /\ DoSend(e)
  /\ UNCHANGED appVars

\* The writer system returns.
WriterEnds ==
  /\ pc = "writer"
  /\ pc' = "late_reader"
  /\ UNCHANGED <<events, reading, pos, guards, mode, nextUid, consumedNow,
                 consumedEarlier, yielded, op, arg, prev, cycle, value, values>>

OrderNext ==
  \/ CycleFirst
  \/ ReaderStarts
  \/ ReaderNext
  \/ \E i \in guards : ReaderConsumes(i)
  \/ \E i \in guards : \E v \in Payloads : ReaderWrites(i, v)
  \/ ReaderEnds
  \/ \E e \in Payloads : WriterSends(e)
  \/ WriterEnds

OrderSpec == OrderInit /\ [][OrderNext]_vars

\* ------------------------------------------------------- words for the claims

Idx(self) == 1..Len(self)

UidsOf(self) == {self[i].uid : i \in Idx(self)}

UnconsumedIdx(self) == {i \in Idx(self) : ~self[i].consumed}

ConsumedIdx(self) == {i \in Idx(self) : self[i].consumed}

\* The uids consume() has ever been called on.
EverConsumed == consumedNow \cup consumedEarlier

\* The records of self are in the order they were sent in.
InSendOrder(self) == \A i, j \in Idx(self) : i < j => self[i].uid < self[j].uid

\* The last call on the buffer was clear(), made directly or by the hook.
AfterClear == op = "clear" \/ (op = "first" /\ mode = "transient")

\* The last call on the buffer was clear_consumed(), made directly or by the hook.
AfterClearConsumed == op = "clear_consumed" \/ (op = "first" /\ mode = "persistent")

\* Every stored record has been scanned: the pass has run to exhaustion.
Exhausted == reading /\ pos = Len(events)

MinOf(S) == CHOOSE x \in S : \A y \in S : x <= y

\* ----------------------------------------------------------------- C1

\* C1 (consume-once). Once consume() has been called on a record, no later
\* pass yields it: nothing this pass has yielded was consumed by an earlier
\* pass, and no pass yields a record twice, so the calls of consume() on one
\* record all come from one pass; and while the record is stored its flag
\* stays set, so that a fresh pass over the buffer would not yield it either.
C1_ConsumeOnce ==
  /\ \A k \in 1..Len(yielded) : yielded[k].uid \notin consumedEarlier
  /\ \A k, l \in 1..Len(yielded) : yielded[k].uid = yielded[l].uid => k = l
  /\ consumedNow \cap consumedEarlier = {}
  /\ \A i \in Idx(events) : events[i].uid \in EverConsumed => events[i].consumed
  /\ LET got == collect(events, 0)
     IN  \A k \in 1..Len(got) : events[got[k]].uid \notin EverConsumed

\* A second pass has scanned a buffer that still stores a record an earlier
\* pass consumed, and has yielded another record.
C1_Witness ==
  /\ Exhausted
  /\ yielded # <<>>
  /\ \E i \in Idx(events) : events[i].uid \in consumedEarlier

\* ----------------------------------------------------------------- C2

\* What next() must do from the state it finds: take the first record after
\* the scanned ones whose flag is false at that moment, or end the scan.
C2_NextIsFirstUnconsumed ==
  LET U == {i \in UnconsumedIdx(events) : i > pos}
  IN  IF U = {}
      THEN yielded' = yielded /\ guards' = guards /\ pos' = Len(events)
      ELSE /\ pos' = MinOf(U)
           /\ guards' = guards \cup {MinOf(U)}
           /\ yielded' = Append(yielded, [idx |-> MinOf(U),
                                          uid |-> events[MinOf(U)].uid,
                                          event |-> events[MinOf(U)].event])

\* C2 (skip consumed, keep scanning). Every step of a pass yields the first
\* record, in buffer order, that is unconsumed when the scan reaches it: never
\* a consumed record, and never None while an unconsumed record lies ahead,
\* whatever consumed records precede it.
C2_SkipConsumedKeepScanning == [][IterNext => C2_NextIsFirstUnconsumed]_vars

\* A pass has run to exhaustion and has yielded a record that follows one
\* which was already consumed when the pass began.
C2_Witness ==
  /\ Exhausted
  /\ op = "read"
  /\ \E k \in 1..Len(yielded) :
       /\ yielded[k].idx > 1
       /\ prev[yielded[k].idx - 1].consumed

\* ----------------------------------------------------------------- C3

\* What a pass has yielded, as <<uid, payload>> pairs.
YieldedPairs == [k \in 1..Len(yielded) |-> <<yielded[k].uid, yielded[k].event>>]

\* The unconsumed records of self in buffer order, as <<uid, payload>> pairs,
\* counted off by position.
RECURSIVE UnconsumedPairsFrom(_, _)
UnconsumedPairsFrom(self, i) ==
  IF i > Len(self) THEN <<>>
  ELSE (IF self[i].consumed THEN <<>> ELSE <<<<self[i].uid, self[i].event>>>>)
       \o UnconsumedPairsFrom(self, i + 1)

UnconsumedPairs(self) == UnconsumedPairsFrom(self, 1)

\* C3 (order preservation). The buffer is always in send order, whatever has
\* been appended, consumed or pruned; a send, send_batch or send_default puts
\* its payloads, in the order given, behind the records already stored; and a
\* pass run to exhaustion that has consumed nothing has yielded exactly the
\* records that were unconsumed, with their payloads, in that order.
C3_OrderPreserved ==
  /\ InSendOrder(events)
  /\ op \in {"send", "send_batch", "send_default"} =>
       LET given == IF op = "send_default" THEN <<DefaultValue>> ELSE arg
       IN  /\ Len(events) = Len(prev) + Len(given)
           /\ \A i \in Idx(prev) : events[i] = prev[i]
           /\ \A k \in 1..Len(given) :
                /\ events[Len(prev) + k].event = given[k]
                /\ ~events[Len(prev) + k].consumed
  /\ (Exhausted /\ consumedNow = {}) => YieldedPairs = UnconsumedPairs(prev)

\* A pass that consumed nothing has run to exhaustion over a buffer with a
\* consumed record in it, and has yielded two records with different payloads.
C3_Witness ==
  /\ Exhausted
  /\ consumedNow = {}
  /\ ConsumedIdx(events) # {}
  /\ \E k, l \in 1..Len(yielded) : k < l /\ yielded[k].event # yielded[l].event

\* ----------------------------------------------------------------- C4

\* C4 (full clear). Right after clear() the buffer stores nothing and a pass
\* over it yields nothing, whatever it stored before.
C4_FullClear ==
  AfterClear => Len(events) = 0 /\ collect(events, 0) = <<>>

\* clear() has just been called on a buffer that stored both a consumed and
\* an unconsumed record.
C4_Witness ==
  /\ AfterClear
  /\ ConsumedIdx(prev) # {}
  /\ UnconsumedIdx(prev) # {}

\* ----------------------------------------------------------------- C5

\* C5 (partition). Right after clear_consumed() the buffer stores exactly the
\* records that were unconsumed before the call, each unchanged, in the same
\* relative order; a pass yields the same sequence as it would have before
\* the call, and the stored length is the number of unconsumed records.
C5_Partition ==
  AfterClearConsumed =>
    /\ UidsOf(events) = {prev[i].uid : i \in UnconsumedIdx(prev)}
    /\ \A j \in Idx(events) : \E i \in UnconsumedIdx(prev) : events[j] = prev[i]
    /\ InSendOrder(events)
    /\ Len(events) = Cardinality(UnconsumedIdx(prev))
    /\ read_values(events) = read_values(prev)
    /\ UnconsumedPairs(events) = UnconsumedPairs(prev)

\* clear_consumed() has just removed a consumed record from between two
\* unconsumed ones.
C5_Witness ==
  /\ AfterClearConsumed
  /\ Len(prev) = 3
  /\ ConsumedIdx(prev) = {2}
  /\ Len(events) = 2

\* ----------------------------------------------------------------- C6

\* The records the last call took out of the buffer.
RemovedIdx == {i \in Idx(prev) : prev[i].uid \notin UidsOf(events)}

\* C6 as stated: the number of consumed records clear_consumed() removes is
\* the number of unconsumed records before the call minus the number after.
C6_AsStated ==
  AfterClearConsumed =>
    Cardinality(RemovedIdx \cap ConsumedIdx(prev))
      = Cardinality(UnconsumedIdx(prev)) - Cardinality(UnconsumedIdx(events))

\* C6 (partition count), amended. clear_consumed() removes consumed records
\* only, as many as the buffer stored: the stored length drops by the number
\* of consumed records, none is left, and the number of unconsumed records is
\* the same before and after the call.
C6_PartitionCount ==
  AfterClearConsumed =>
    /\ RemovedIdx = ConsumedIdx(prev)
    /\ Len(prev) - Len(events) = Cardinality(ConsumedIdx(prev))
    /\ ConsumedIdx(events) = {}
    /\ Cardinality(UnconsumedIdx(events)) = Cardinality(UnconsumedIdx(prev))

\* clear_consumed() has just removed two consumed records and left an
\* unconsumed one.
C6_Witness ==
  /\ AfterClearConsumed
  /\ Cardinality(ConsumedIdx(prev)) = 2
  /\ Cardinality(UnconsumedIdx(events)) = 1

\* ----------------------------------------------------------------- C7

\* C7 (the flag is monotone). In every step a stored record whose flag is set
\* is either removed or keeps its flag set, and a flag that changes at all
\* changes from false to true in a step that is a call of consume() on a
\* guard of that record.
C7_FlagMonotone ==
  [][\A i \in Idx(events) :
       \A j \in Idx(events') :
         events'[j].uid = events[i].uid =>
           /\ events[i].consumed => events'[j].consumed
           /\ events'[j].consumed # events[i].consumed =>
                /\ i = j
                /\ i \in guards
                /\ GuardConsume(i)]_vars

\* A guard's record has been consumed and its payload has been written, and
\* the record is still stored with its flag set.
C7_Witness ==
  /\ reading
  /\ op = "read"
  /\ \E i \in guards : events[i].consumed /\ events[i].event # prev[i].event

\* ----------------------------------------------------------------- C8

\* C8 (transient lifecycle). With clear_all_events registered, every stored
\* record was sent in the running cycle: none from cycle N is left once the
\* hook of cycle N+1 has run, consumed or not, and the hook leaves the buffer
\* empty. So the producer/consumer pair of the test leaves the same read at
\* the end of every cycle: [0, 1, 2, 3, 4].
C8_TransientLifecycle ==
  mode = "transient" =>
    /\ \A i \in Idx(events) : events[i].born = cycle
    /\ op = "first" => events = <<>>
    /\ op = "collect" => values = <<0, 1, 2, 3, 4>>

\* The second cycle of the transient test has ended and its read is collected,
\* after a first cycle that left consumed and unconsumed records behind.
C8_Witness ==
  /\ mode = "transient"
  /\ cycle = 2
  /\ op = "collect"
  /\ values = <<0, 1, 2, 3, 4>>
  /\ Len(events) = NumEvents
  /\ consumedEarlier # {}

\* ----------------------------------------------------------------- C9

\* C9 (persistent lifecycle). With clear_consumed_events registered, the hook
\* keeps every record that was unconsumed at the end of the cycle before,
\* with the payload it then had and in the same relative order, and records
\* of an earlier cycle stay ahead of those sent later; every other call of
\* the schedule keeps all the records it found. The pair of the test reads
\* [0, 1, 2, 3, 4] after cycle 1 and [0, 1, 2, 0, 1, 2, 3, 4] after cycle 2.
C9_PersistentLifecycle ==
  mode = "persistent" =>
    /\ op = "first" =>
         /\ UnconsumedPairs(events) = UnconsumedPairs(prev)
         /\ \A i \in UnconsumedIdx(prev) : \E j \in Idx(events) : events[j] = prev[i]
    /\ op \in {"send", "read", "collect"} =>
         \A i \in UnconsumedIdx(prev) :
           /\ i <= Len(events)
           /\ events[i].uid = prev[i].uid
           /\ events[i].consumed => prev[i].uid \in consumedNow \cup consumedEarlier
    /\ \A i, j \in Idx(events) : i < j => events[i].born <= events[j].born
    /\ InSendOrder(events)
    /\ (op = "collect" /\ cycle = 1) => values = <<0, 1, 2, 3, 4>>
    /\ (op = "collect" /\ cycle = 2) => values = <<0, 1, 2, 0, 1, 2, 3, 4>>

\* The second cycle of the persistent test has ended: the halved evens of
\* cycle 1 were read again, ahead of the batch of cycle 2.
C9_Witness ==
  /\ mode = "persistent"
  /\ cycle = 2
  /\ op = "collect"
  /\ values = <<0, 1, 2, 0, 1, 2, 3, 4>>
  /\ \E i, j \in Idx(events) : events[i].born = 1 /\ events[j].born = 2

\* ---------------------------------------------------------------- C10

\* send(p1); ...; send(pn) on self, the first record getting identity uid.
RECURSIVE SendEach(_, _, _, _)
SendEach(self, payloads, uid, born) ==
  IF payloads = <<>> THEN self
  ELSE SendEach(send(self, Head(payloads), uid, born), Tail(payloads), uid + 1, born)

\* C10 (batch equivalence). send_batch(p1..pn) leaves the buffer as the calls
\* send(p1); ...; send(pn) would have: the records it found untouched, then
\* the new ones, unconsumed, in the order given, so that a pass reads the same
\* sequence; send_default() leaves it as send(default value) would have.
C10_BatchEquivalence ==
  /\ op = "send_batch" =>
       LET one_by_one == SendEach(prev, arg, nextUid - Len(arg), cycle)
       IN  /\ events = one_by_one
           /\ read_values(events) = read_values(one_by_one)
  /\ op = "send_default" =>
       events = SendEach(prev, <<DefaultValue>>, nextUid - 1, cycle)

\* send_batch has just appended two different payloads to a buffer that
\* stored a consumed record.
C10_Witness ==
  /\ op = "send_batch"
  /\ Len(arg) = 2
  /\ arg[1] # arg[2]
  /\ ConsumedIdx(prev) # {}

\* ---------------------------------------------------------------- C11

\* C11 (a read before the writer). The reader that runs before the writer in
\* a cycle is never given a record the writer sends in that cycle, and the
\* reader that runs after it, once its pass is exhausted, has been given every
\* one of them; with the transient hook the reader before the writer is given
\* no record at all, in any cycle.
C11_ReadBeforeWriter ==
  /\ (pc = "early_reader" /\ reading) =>
       \A k \in 1..Len(yielded) : events[yielded[k].idx].born < cycle
  /\ (pc = "early_reader" /\ reading /\ mode = "transient") => yielded = <<>>
  /\ (pc = "late_reader" /\ Exhausted) =>
       \A i \in Idx(events) :
         events[i].born = cycle => \E k \in 1..Len(yielded) : yielded[k].idx = i

\* In the second transient cycle the reader before the writer has scanned the
\* whole buffer, after a first cycle whose writer sent records that nobody
\* consumed.
C11_Witness ==
  /\ mode = "transient"
  /\ cycle = 2
  /\ pc = "early_reader"
  /\ Exhausted
  /\ nextUid > 1
  /\ consumedEarlier = {}

\* In a cycle the reader after the writer has been given what it sent.
C11_WitnessLate ==
  /\ pc = "late_reader"
  /\ Exhausted
  /\ \E k \in 1..Len(yielded) : events[yielded[k].idx].born = cycle

\* ---------------------------------------------------------------- C12

\* C12 (consuming does not remove storage). From read() on, through every
\* next(), consume(), write and drop of the pass and after its end, the buffer
\* stores the very records it stored when read() was called; a send stores
\* exactly as many more as it was given and a clear or clear_consumed never
\* more than before. So when a pass has consumed every record, a pass over the
\* buffer yields nothing and the stored length is what it was.
C12_ConsumeKeepsStorage ==
  /\ op = "read" =>
       /\ Len(events) = Len(prev)
       /\ \A i \in Idx(prev) : events[i].uid = prev[i].uid
  /\ op \in {"send", "send_default"} => Len(events) = Len(prev) + 1
  /\ op = "send_batch" => Len(events) = Len(prev) + Len(arg)
  /\ op \in {"clear", "clear_consumed", "first"} => Len(events) <= Len(prev)
  /\ (op = "read" /\ UnconsumedIdx(events) = {}) =>
       collect(events, 0) = <<>> /\ Len(events) = Len(prev)

\* A pass has consumed each of three stored records, none of them consumed
\* before, and has ended: all three are still stored.
C12_Witness ==
  /\ op = "read"
  /\ ~reading
  /\ Len(events) = 3
  /\ UnconsumedIdx(prev) = {1, 2, 3}
  /\ UnconsumedIdx(events) = {}

\* ---------------------------------------------------------------- C13

\* A step of a pass in which no guard calls consume() and none writes.
C13_QuietStep ==
  /\ reading \/ reading'
  /\ ~ \E i \in guards : GuardConsume(i) \/ \E v \in Payloads : GuardWrite(i, v)

\* C13 (a guard left alone changes nothing). A step of a pass that is neither
\* a consume() nor a payload write -- read(), next(), the drop of a guard, the
\* end of the pass -- leaves every stored record as it was, and the drop of a
\* guard leaves its record unconsumed unless consume() was called on it. So a
\* pass that has run to exhaustion over a buffer it left as it found it has
\* yielded what a pass over the buffer yields now.
C13_UntouchedGuard ==
  /\ [][C13_QuietStep => events' = events]_vars
  /\ [](\A i \in Idx(events) :
          (op = "read" /\ ~prev[i].consumed /\ events[i].uid \notin EverConsumed)
            => ~events[i].consumed)
  /\ []((Exhausted /\ events = prev) =>
          /\ [k \in 1..Len(yielded) |-> yielded[k].idx] = collect(events, 0)
          /\ [k \in 1..Len(yielded) |-> yielded[k].event] = read_values(events))

\* A pass has yielded two records, dropped both guards without a consume() or
\* a write, and has run to exhaustion: the buffer is as read() found it.
C13_Witness ==
  /\ Exhausted
  /\ events = prev
  /\ Len(yielded) = 2
  /\ guards = {}
  /\ consumedNow = {}

\* ---------------------------------------------------------------- C14

\* A write of v through the guard of record i changes that record's payload
\* and nothing else, and a second write replaces the first.
C14_WriteIsLocal(i, v) ==
  LET w == deref_mut(events, i, v)
  IN  /\ Len(w) = Len(events)
      /\ w[i] = [events[i] EXCEPT !.event = v]
      /\ \A j \in Idx(events) \ {i} : w[j] = events[j]
      /\ collect(w, 0) = collect(events, 0)
      /\ \A v2 \in Payloads : deref_mut(w, i, v2) = deref_mut(events, i, v2)

\* A record kept by the step (same identity before and after) has an other
\* payload after it only if the step is a write through that record's guard.
C14_PayloadStep ==
  \A i \in Idx(events), j \in Idx(events') :
    (events[i].uid = events'[j].uid /\ events[i].event # events'[j].event) =>
      /\ i = j
      /\ i \in guards
      /\ events' = deref_mut(events, i, events'[i].event)

\* C14 (payload writes). A write through a guard changes the payload of the
\* guard's record only: its flag, and every other record, stay as they were;
\* the record may be written again and again. A stored payload changes by no
\* other step, and what a pass yields for a record is the payload stored when
\* read() was called, so later passes yield what was written last.
C14_PayloadWrite ==
  /\ [](\A i \in guards : \A v \in Payloads : C14_WriteIsLocal(i, v))
  /\ [][C14_PayloadStep]_vars
  /\ [](\A k \in 1..Len(yielded) :
          /\ prev[yielded[k].idx].uid = yielded[k].uid
          /\ prev[yielded[k].idx].event = yielded[k].event)

\* In a pass over two records, one has been written through its guard and is
\* still unconsumed, the other was consumed through its own guard.
C14_Witness ==
  /\ op = "read"
  /\ reading
  /\ \E i, j \in guards :
       /\ i # j
       /\ events[i].event # prev[i].event
       /\ ~events[i].consumed
       /\ events[j].consumed
       /\ events[j].event = prev[j].event

\* ---------------------------------------------------------------- C15

\* C15 (consuming does not disturb the pass). Whatever the guards of a pass
\* have consumed or written so far, the pass has yielded one guard for each
\* record among those scanned that was unconsumed when read() was called, in
\* buffer order, each yielded once; the records not yet scanned have their
\* flags as read() found them; and a pass run to exhaustion has yielded exactly
\* the records that were unconsumed at read(), in buffer order.
C15_PassVisitsAllUnconsumed ==
  reading =>
    /\ {yielded[k].idx : k \in 1..Len(yielded)} = {i \in UnconsumedIdx(prev) : i <= pos}
    /\ \A k, l \in 1..Len(yielded) : k < l => yielded[k].idx < yielded[l].idx
    /\ \A i \in Idx(events) : i > pos => events[i].consumed = prev[i].consumed
    /\ Exhausted => YieldedPairs = UnconsumedPairs(prev)

\* A pass over three unconsumed records consumed the first through its guard,
\* wrote the second, and has gone on to exhaustion, yielding all three.
C15_Witness ==
  /\ Exhausted
  /\ Len(yielded) = 3
  /\ yielded[1].uid \in consumedNow
  /\ events[yielded[2].idx].event # prev[yielded[2].idx].event
  /\ ~events[yielded[3].idx].consumed

\* ---------------------------------------------------------------- C16

\* C16 (double consume). consume() through a live guard whose record is
\* already consumed leaves the buffer exactly as it is, so two calls through
\* one guard leave the buffer as one call does; the calls change nothing but
\* that record's flag.
C16_DoubleConsume ==
  \A i \in guards :
    LET once == consume(events, i)
    IN  /\ consume(once, i) = once
        /\ once[i].consumed
        /\ once = [events EXCEPT ![i] = [events[i] EXCEPT !.consumed = TRUE]]
        /\ events[i].consumed => once = events
        /\ events[i].uid \in consumedNow => events[i].consumed

\* A guard is alive whose record consume() has already been called on in this
\* pass, next to a guard whose record is unconsumed.
C16_Witness ==
  /\ reading
  /\ \E i, j \in guards :
       /\ events[i].uid \in consumedNow
       /\ events[i].consumed
       /\ ~events[j].consumed

\* ---------------------------------------------------------------- C17

\* The stored records other than i that hold the payload record i holds.
C17_Twins(i) == {j \in Idx(events) \ {i} : events[j].event = events[i].event}

\* C17 (equal payloads are independent). A record's flag is set exactly when
\* consume() was called on that very record, however many records hold an
\* equal payload; consume() or a write through the guard of one record leaves
\* every other record holding an equal payload as it is; and a send of a
\* payload leaves the records already stored as they are and appends one new
\* unconsumed record, the last a pass over the buffer yields, also when a
\* consumed record with an equal payload is stored.
C17_EqualPayloadsIndependent ==
  /\ \A i \in Idx(events) : events[i].consumed <=> events[i].uid \in EverConsumed
  /\ \A i \in guards : \A j \in C17_Twins(i) :
       /\ consume(events, i)[j] = events[j]
       /\ \A v \in Payloads : deref_mut(events, i, v)[j] = events[j]
  /\ op \in {"send", "send_default"} =>
       LET n == Len(events)
           got == collect(events, 0)
       IN  /\ SubSeq(events, 1, n - 1) = prev
           /\ events[n].uid \notin UidsOf(prev)
           /\ ~events[n].consumed
           /\ got # <<>> /\ got[Len(got)] = n

\* Three records hold equal payloads; the first was consumed, the second was
\* not, and the third has just been sent.
C17_Witness ==
  /\ op \in {"send", "send_default"}
  /\ Len(events) = 3
  /\ events[1].event = events[3].event /\ events[2].event = events[3].event
  /\ events[1].consumed
  /\ events[1].uid \in EverConsumed
  /\ ~events[2].consumed

\* ---------------------------------------------------------------- C18

\* C18 (the state right after the hook). When the hook has run, no stored
\* record has its flag set and no stored record is one consume() was ever
\* called on: the transient hook leaves the buffer empty, the persistent hook
\* leaves the records that were unconsumed, as they were and in their order.
\* So a record consumed in one cycle is stored no longer than until the hook
\* that starts the next. clear_consumed() applied to what clear_consumed()
\* left changes nothing.
C18_CleanAfterHook ==
  /\ op = "first" =>
       /\ ConsumedIdx(events) = {}
       /\ UidsOf(events) \cap EverConsumed = {}
       /\ mode = "transient" => events = <<>>
       /\ mode = "persistent" =>
            /\ events = SelectSeq(prev, LAMBDA e : ~e.consumed)
            /\ clear_consumed(events) = events
  /\ clear_consumed(clear_consumed(events)) = clear_consumed(events)

\* The persistent hook of the second cycle has just run on a buffer that held
\* a record consumed in the first cycle and a record nobody consumed.
C18_Witness ==
  /\ op = "first"
  /\ mode = "persistent"
  /\ cycle = 2
  /\ ConsumedIdx(prev) # {}
  /\ Len(events) < Len(prev)
  /\ events # <<>>

\* ---------------------------------------------------------------- C19

\* C19 (finite, forward-only, fused). A pass never has yielded more guards
\* than records are stored; the records it yielded lie at strictly increasing
\* positions, none past the scan position, which never passes the end of the
\* buffer; the next step of the pass yields a record behind the scan position
\* or nothing; the guards yielded and the unconsumed records still to scan
\* are together no more than the records stored; and once the scan position is
\* at the end, which is where a step that finds nothing leaves it, every
\* further step finds nothing.
C19_FiniteForwardFused ==
  reading =>
    /\ Len(yielded) <= Len(events)
    /\ pos \in 0..Len(events)
    /\ \A k \in 1..Len(yielded) : yielded[k].idx \in 1..pos
    /\ \A k \in 1..(Len(yielded) - 1) : yielded[k].idx < yielded[k + 1].idx
    /\ find(events, pos) \in {0} \cup (pos + 1)..Len(events)
    /\ Len(yielded) + Cardinality({i \in UnconsumedIdx(events) : i > pos}) <= Len(events)
    /\ Exhausted => find(events, pos) = 0

\* A pass over three records yielded the first two and then found nothing,
\* the third being consumed: it is at the end with an unconsumed record stored.
C19_Witness ==
  /\ Exhausted
  /\ Len(events) = 3
  /\ Len(yielded) = 2
  /\ yielded[2].idx = 2
  /\ UnconsumedIdx(events) # {}

\* ---------------------------------------------------------------- C20

\* C20 (size_hint). At every point of a pass size_hint() gives 0 as the lower
\* bound and the number of stored records not yet scanned as the upper bound,
\* and the number of guards the rest of the pass yields is at least the one and
\* at most the other.
C20_SizeHint ==
  reading =>
    LET hint == size_hint(events, pos)
        rest == Len(collect(events, pos))
    IN  /\ hint[1] = 0
        /\ hint[2] = Cardinality({i \in Idx(events) : i > pos})
        /\ hint[1] <= rest
        /\ rest <= hint[2]

\* A pass has scanned one of three records; of the two left one is consumed
\* and one is not, so the rest of the pass yields 1, between 0 and 2.
C20_Witness ==
  /\ reading
  /\ pos = 1
  /\ Len(events) = 3
  /\ Len(collect(events, pos)) = 1
  /\ size_hint(events, pos) = <<0, 2>>

====
